---- MODULE Spec2Model ----
(***************************************************************************)
(* mTLS side-car proxy (mtls-proxy): trust-material loading, startup, the  *)
(* accept loop, the per-connection pipeline tls_accept -> connect_upstream *)
(* -> pipe, the timeout guard and shutdown.                                *)
(***************************************************************************)
EXTENDS Integers, Sequences, FiniteSets, TLC

\* ------------------------------------------------------------------ bounds
MaxConns == 2          \* sockets the listener hands out in one run
MaxAddrLen == 4        \* characters of the configured upstream address
MaxPemItems == 2       \* PEM sections in one certificate / key file
MaxConnectWait == 1    \* time units a slow upstream takes to accept a TCP connection
MaxAcceptErrors == 1   \* failed accept() calls in one run
MaxBytes == 2          \* bytes one peer writes into a relay

\* ------------------------------------------------------- program constants
InboundDeadline == 5   \* Duration::from_secs(5), proxy.rs:117
OutboundDeadline == 10 \* Duration::from_secs(10), proxy.rs:148
MaxPort == 2^16 - 1     \* u16::MAX, the port of a socket address

\* ------------------------------------------------------------- results
Ok(v) == [ok |-> TRUE, val |-> v, err |-> "none"]
Err(e) == [ok |-> FALSE, val |-> <<>>, err |-> e]

\* ---------------------------------------------------- files on disk (tls.rs)
\* A file either does not exist / is unreadable, or is a sequence of PEM
\* sections.
NoFile == [exists |-> FALSE, items |-> <<>>]
File(items) == [exists |-> TRUE, items |-> items]
SeqsUpTo(S, n) == UNION {[1..k -> S] : k \in 0..n}

\* Sections of a certificate file: a certificate that is a usable trust
\* anchor issued as CA "ca1" or "ca2", a CERTIFICATE section whose DER is no
\* valid certificate ("junk"), a broken PEM section ("pemerr").
CertItems == {"ca1", "ca2", "junk", "pemerr"}
CertFiles == {NoFile} \cup {File(s) : s \in SeqsUpTo(CertItems, MaxPemItems)}
\* Sections of a key file: a PKCS#8 key, a section of another kind (skipped by
\* pkcs8_private_keys), a broken PEM section.
KeyItems == {"pkcs8", "other", "pemerr"}
KeyFiles == {NoFile} \cup {File(s) : s \in SeqsUpTo(KeyItems, MaxPemItems)}

cert_reader(file) ==
    IF ~file.exists THEN Err("Io")
    ELSE IF \E i \in 1..Len(file.items) : file.items[i] = "pemerr" THEN Err("Pem")
    ELSE Ok(file.items)

\* pkcs8_private_keys(..).next(): the first PKCS#8 section or the first PEM
\* error, whichever comes first; sections of other kinds are skipped.
privkey_reader(file) ==
    IF ~file.exists THEN Err("Io")
    ELSE LET hits == {i \in 1..Len(file.items) : file.items[i] # "other"}
         IN IF hits = {} THEN Err("MissingKey")
            ELSE LET first == CHOOSE i \in hits : \A j \in hits : i <= j
                 IN IF file.items[first] = "pemerr" THEN Err("Pem") ELSE Ok("key")

\* RootCertStore::add_parsable_certificates keeps the certificates that parse
\* as trust anchors and ignores the rest.
add_parsable_certificates(certs) == SelectSeq(certs, LAMBDA c : c \in {"ca1", "ca2"})

load_root_store_lenient(ca) ==
    LET ca_certs == cert_reader(ca)
    IN IF ~ca_certs.ok THEN ca_certs
       ELSE Ok(add_parsable_certificates(ca_certs.val))

load_root_store(ca) ==
    LET ca_certs == cert_reader(ca)
    IN IF ~ca_certs.ok THEN ca_certs
       ELSE LET root_store == add_parsable_certificates(ca_certs.val)
            IN IF root_store = <<>> THEN Err("EmptyTrustStore") ELSE Ok(root_store)

\* A TLS context: its trust store and the fixed ALPN value. with_single_cert /
\* with_client_auth_cert may reject the chain and key (rustls): single_cert_ok.
NoCfg == [built |-> FALSE, roots |-> <<>>, alpn |-> "none"]
TlsCfg(roots) == [built |-> TRUE, roots |-> roots, alpn |-> "h2"]

\* `?` in a function that returns a context: the error goes to the caller.
Propagate(e) == [ok |-> FALSE, val |-> NoCfg, err |-> e]

build_server_config(cert_file, key_file, ca, single_cert_ok) ==
    LET server_cert == cert_reader(cert_file)
        privkey_server == privkey_reader(key_file)
        root_store == load_root_store(ca)
    IN IF ~server_cert.ok THEN Propagate(server_cert.err)
       ELSE IF ~privkey_server.ok THEN Propagate(privkey_server.err)
       ELSE IF ~root_store.ok THEN Propagate(root_store.err)
       ELSE IF ~single_cert_ok THEN Propagate("Rustls")
       ELSE Ok(TlsCfg(root_store.val))

build_client_config(cert_file, key_file, ca, single_cert_ok) ==
    LET client_cert == cert_reader(cert_file)
        privkey_client == privkey_reader(key_file)
        root_store == load_root_store(ca)
    IN IF ~client_cert.ok THEN Propagate(client_cert.err)
       ELSE IF ~privkey_client.ok THEN Propagate(privkey_client.err)
       ELSE IF ~root_store.ok THEN Propagate(root_store.err)
       ELSE IF ~single_cert_ok THEN Propagate("Rustls")
       ELSE Ok(TlsCfg(root_store.val))

\* ------------------------------------------- the upstream address (proxy.rs)
\* An address is a sequence of characters: a letter that is no hex digit, a
\* digit, the separator.
AddrChars == {"h", "1", ":"}
Digits == {"1"}
HexDigits == {"1"}
DnsChars == {"h", "1"}
Addresses == SeqsUpTo(AddrChars, MaxAddrLen)

Colons(s) == {i \in 1..Len(s) : s[i] = ":"}
FirstColon(s) == CHOOSE i \in Colons(s) : \A j \in Colons(s) : i <= j
LastColon(s) == CHOOSE i \in Colons(s) : \A j \in Colons(s) : i >= j

\* upstream.split(":").next(): the text before the first ':', the whole text
\* when there is none; it is always Some.
split_next(s) ==
    IF Colons(s) = {} THEN Ok(s) ELSE Ok(SubSeq(s, 1, FirstColon(s) - 1))

DigitValue(ch) == IF ch = "1" THEN 1 ELSE 0

RECURSIVE DecValue(_)
DecValue(p) ==
    IF p = <<>> THEN 0
    ELSE LET v == 10 * DecValue(SubSeq(p, 1, Len(p) - 1)) + DigitValue(p[Len(p)])
         IN IF v > MaxPort THEN MaxPort + 1 ELSE v

\* str::parse::<u16>() of the port text
parse_port(p) ==
    /\ p # <<>>
    /\ \A i \in 1..Len(p) : p[i] \in Digits
    /\ DecValue(p) <= MaxPort

\* An IPv6 literal as the resolver (inet_pton) accepts it: hex groups of at
\* most four digits separated by ':', eight of them, or fewer around one "::".
IsIPv6Literal(h) ==
    LET n == Len(h)
        dbl == {i \in 1..(n - 1) : h[i] = ":" /\ h[i + 1] = ":"}
        groups == {i \in 1..n : h[i] \in HexDigits /\ (i = 1 \/ h[i - 1] = ":")}
    IN /\ n >= 2
       /\ \A i \in 1..n : h[i] \in HexDigits \cup {":"}
       /\ \A i \in 1..(n - 4) : \E j \in i..(i + 4) : h[j] = ":"
       /\ (h[1] = ":" => h[2] = ":")
       /\ (h[n] = ":" => h[n - 1] = ":")
       /\ \/ dbl = {} /\ Cardinality(groups) = 8
          \/ Cardinality(dbl) = 1 /\ Cardinality(groups) <= 7

\* TcpStream::connect(&upstream) first turns the text into socket addresses
\* (ToSocketAddrs for str). No text over AddrChars parses as a SocketAddr
\* literal ("1.2.3.4:80", "[::1]:80"), so the lookup path decides: split at the
\* LAST ':', parse the port as u16, resolve the host. A name is resolved by the
\* system resolver (dns_ok, the environment's answer); an IPv6 literal always
\* resolves; an empty host or any other host holding a ':' never does.
to_socket_addrs(s, dns_ok) ==
    IF Colons(s) = {} THEN Err("InvalidInput")
    ELSE LET host == SubSeq(s, 1, LastColon(s) - 1)
             port == SubSeq(s, LastColon(s) + 1, Len(s))
         IN IF ~parse_port(port) THEN Err("InvalidInput")
            ELSE IF IsIPv6Literal(host) THEN Ok(<<host, port>>)
            ELSE IF host = <<>> \/ Colons(host) # {} THEN Err("Lookup")
            ELSE IF dns_ok THEN Ok(<<host, port>>)
            ELSE Err("Lookup")

\* ServerName::try_from(host): a DNS name (non-empty, name characters only);
\* no host cut at the first ':' is an IP literal over AddrChars.
server_name(host) ==
    IF host # <<>> /\ \A i \in 1..Len(host) : host[i] \in DnsChars
    THEN Ok(host) ELSE Err("InvalidServerName")

\* ------------------------------------------------------ TLS peers (rustls)
\* What the peer of a handshake presents: no certificate, or a certificate
\* issued by CA "ca1", "ca2" or by a CA that is in no file ("ca3").
PeerCerts == {"nocert", "ca1", "ca2", "ca3"}
InRoots(roots, issuer) == \E i \in 1..Len(roots) : roots[i] = issuer

\* WebPkiClientVerifier (tls.rs:66): the client must present a certificate
\* that chains to the trust store.
verify_client(peer, roots) == IF InRoots(roots, peer) THEN "Ok" ELSE "CertInvalid"
\* The client-side verifier (tls.rs:86-88): the upstream certificate chains to
\* the trust store and matches the server name.
verify_server(peer, roots, name_matches) ==
    IF InRoots(roots, peer) /\ name_matches THEN "Ok" ELSE "CertInvalid"

\* What a handshake future can be when it is polled: still pending, failed on
\* I/O, or finished with the verifier's verdict on what the peer presented.
accept_futures(roots) ==
    {"Pending", "Io"} \cup {verify_client(peer, roots) : peer \in PeerCerts}

connect_futures(roots) ==
    {"Pending", "Io"} \cup
        {verify_server(peer, roots, name_matches) :
            peer \in PeerCerts, name_matches \in BOOLEAN}

\* ------------------------------------------------- timeout guard (proxy.rs)
with_timeout_swallow(inner, elapsed, dur) ==
    IF inner # "Pending" THEN inner
    ELSE IF elapsed >= dur THEN "Io" ELSE "Pending"

\* timeout(dur, fut): the future is polled first; when it is not ready and the
\* deadline has passed the guard gives Timeout.
with_timeout(inner, elapsed, dur) ==
    IF inner # "Pending" THEN inner
    ELSE IF elapsed >= dur THEN "Timeout" ELSE "Pending"

\* ------------------------------------------------------------------ state
VARIABLES
    mainPc,        \* where main / Proxy::run / accept_loop stands
    ca_file,       \* cfg.tls.ca_file: the content of the CA file
    upstream,      \* cfg.upstream
    incoming,      \* connections the local clients will open in this run
    server_cfg,    \* Proxy.server_cfg
    client_cfg,    \* Proxy.client_cfg
    listener,      \* the TcpListener: "unbound", "failed" (bind error), "bound", "closed"
    runResult,     \* what Proxy::run returned: "none", "Ok", "Err"
    exitResult,    \* what main returned: "none", "Ok", or the error
    acceptErrors,  \* accept() calls that failed so far
    signal,        \* the Ctrl-C future of run: "none", "received"
    tcp_delay,     \* time units the upstream may take to accept a TCP connection
    client_bytes,  \* what an inbound client writes into its session
    upstream_bytes, \* what the upstream writes into a session
    conn           \* per accepted socket: the handler task's state

vars == <<mainPc, ca_file, upstream, incoming, server_cfg, client_cfg, listener,
          runResult, exitResult, acceptErrors, signal, tcp_delay, client_bytes,
          upstream_bytes, conn>>

Conns == 1..MaxConns

\* One slot per socket the listener can hand out.
\*   phase    "none" (not accepted yet), "tls_accept", "connect_upstream",
\*            "tcp_connect", "tls_connect", "pipe", "closed"
\*   inbound  result of tls_accept, outbound result of connect_upstream,
\*   result   result of handle_connection ("none" while it runs)
\*   polled   what the guarded future was when with_timeout last polled it
\*   guard    time units since the running with_timeout started
\*   dial     time units since connect_upstream was entered
\*   down     the inbound socket, up the upstream socket
\*   a_to_b   copy_bidirectional's transfer downstream -> upstream,
\*   b_to_a   its transfer upstream -> downstream
\*   to_up    bytes the upstream has received, to_down bytes the client has
\*   report   the byte counts pipe logged: <<from_client, from_server>>
\* A transfer (tokio's TransferState with its CopyBuffer): state "Running",
\* "ShuttingDown" or "Done"; pos bytes read from the reader so far; buf the
\* bytes read and not yet written; amt the bytes written so far.
NoTransfer == [state |-> "Running", pos |-> 0, buf |-> <<>>, amt |-> 0]

NoConn == [phase |-> "none", inbound |-> "none", outbound |-> "none",
           result |-> "none", polled |-> "none", guard |-> 0, dial |-> 0,
           down |-> "none", up |-> "none",
           a_to_b |-> NoTransfer, b_to_a |-> NoTransfer,
           to_up |-> <<>>, to_down |-> <<>>, report |-> <<>>]

Accepted(c) == conn[c].phase # "none"
Running(c) == conn[c].phase \notin {"none", "closed"}
NextSlot == Cardinality({c \in Conns : Accepted(c)}) + 1

DropNothing(k) == k

\* Dropping the streams a handler owns closes their sockets.
\* up: "none", "connecting", "failed" (never established), "open", "closed".
Drop(k) == [k EXCEPT !.down = "closed",
                     !.up = IF k.up = "open" THEN "closed"
                            ELSE IF k.up = "connecting" THEN "failed" ELSE k.up]

\* handle_connection returns res: the task ends, its locals (the transfers of
\* a relay among them) and its streams are dropped. What the peers received
\* stays received.
Return(k, res) ==
    Drop([k EXCEPT !.phase = "closed", !.result = res, !.guard = 0, !.dial = 0,
                   !.a_to_b = NoTransfer, !.b_to_a = NoTransfer])

\* ------------------------------------------- handle_connection (proxy.rs)
handle_tls_accept_ignore_err(k, r) ==
    [k EXCEPT !.phase = "connect_upstream", !.inbound = r, !.guard = 0]

\* proxy.rs:205-212: go on to connect_upstream on Ok, return the error else.
handle_tls_accept(k, r) ==
    IF r = "Ok"
    THEN [k EXCEPT !.phase = "connect_upstream", !.inbound = "Ok", !.guard = 0]
    ELSE Return([k EXCEPT !.inbound = r], r)

handle_connect_upstream_retry(k, r) ==
    IF r = "Ok"
    THEN [k EXCEPT !.phase = "pipe", !.outbound = "Ok", !.guard = 0, !.dial = 0]
    ELSE [k EXCEPT !.phase = "connect_upstream", !.guard = 0, !.dial = 0,
                   !.up = IF k.up = "none" THEN "none" ELSE "closed"]

\* proxy.rs:214-220: go on to pipe on Ok, return the error else.
handle_connect_upstream(k, r) ==
    IF r = "Ok"
    THEN [k EXCEPT !.phase = "pipe", !.outbound = "Ok", !.guard = 0, !.dial = 0]
    ELSE Return([k EXCEPT !.outbound = r], r)

\* proxy.rs:137, first half: the address is turned into socket addresses; only
\* then is a TCP connection attempted.
connect_lookup(k, addrs) ==
    IF addrs.ok THEN [k EXCEPT !.phase = "tcp_connect", !.up = "connecting"]
    ELSE handle_connect_upstream(k, addrs.err)

connect_tcp_host_first(k, tcp_ok, addr) ==
    LET host == split_next(addr)
    IN IF ~host.ok THEN handle_connect_upstream([k EXCEPT !.up = "failed"], "InvalidUpstream")
       ELSE IF ~server_name(host.val).ok
            THEN handle_connect_upstream([k EXCEPT !.up = "failed"], "InvalidServerName")
            ELSE IF ~tcp_ok THEN handle_connect_upstream([k EXCEPT !.up = "failed"], "Io")
                 ELSE [k EXCEPT !.up = "open", !.phase = "tls_connect", !.guard = 0]

\* proxy.rs:137-146: the TCP connect ends; on success the host is cut from the
\* address and turned into a server name, then the guarded handshake starts.
connect_tcp(k, tcp_ok, addr) ==
    IF ~tcp_ok THEN handle_connect_upstream([k EXCEPT !.up = "failed"], "Io")
    ELSE LET host == split_next(addr)
             open == [k EXCEPT !.up = "open"]
         IN IF ~host.ok THEN handle_connect_upstream(open, "InvalidUpstream")
            ELSE IF ~server_name(host.val).ok
                 THEN handle_connect_upstream(open, "InvalidServerName")
                 ELSE [open EXCEPT !.phase = "tls_connect", !.guard = 0]

\* ------------------------------------------------------- pipe (proxy.rs)
\* The bytes a peer can write into a session.
ClientAlphabet == {"a", "b"}
UpstreamAlphabet == {"x", "y"}
ClientPayloads == SeqsUpTo(ClientAlphabet, MaxBytes)
UpstreamPayloads == SeqsUpTo(UpstreamAlphabet, MaxBytes)

\* One outcome of polling a transfer: the transfer, what the writer's peer has
\* received, and whether the poll failed with an I/O error.
Polled(t, dst, err) == [t |-> t, dst |-> dst, err |-> err]

copy_read_counting(t, src, n) ==
    [t EXCEPT !.pos = t.pos + n, !.amt = t.amt + n,
              !.buf = t.buf \o SubSeq(src, t.pos + 1, t.pos + n)]

\* CopyBuffer::poll_copy, read half: the next n bytes of the reader go to the
\* end of the buffer.
copy_read(t, src, n) ==
    [t EXCEPT !.pos = t.pos + n,
              !.buf = t.buf \o SubSeq(src, t.pos + 1, t.pos + n)]

copy_write_keep(t, dst, n) ==
    Polled([t EXCEPT !.amt = t.amt + n], dst \o SubSeq(t.buf, 1, n), FALSE)

\* CopyBuffer::poll_copy, write half: the first n bytes of the buffer go to the
\* writer and are counted.
copy_write(t, dst, n) ==
    Polled([t EXCEPT !.buf = SubSeq(t.buf, n + 1, Len(t.buf)), !.amt = t.amt + n],
           dst \o SubSeq(t.buf, 1, n), FALSE)

\* transfer_one_direction of copy_bidirectional: while Running, poll_copy reads,
\* writes, fails, or sees end-of-stream with everything written and flushed;
\* then the writer is shut down; then the transfer is Done.
transfer_one_direction(t, src, dst) ==
    IF t.state = "Running" THEN
        {Polled(copy_read(t, src, n), dst, FALSE) : n \in 1..(Len(src) - t.pos)}
        \cup {copy_write(t, dst, n) : n \in 1..Len(t.buf)}
        \cup (IF t.pos = Len(src) /\ t.buf = <<>>
              THEN {Polled([t EXCEPT !.state = "ShuttingDown"], dst, FALSE)} ELSE {})
        \cup {Polled(t, dst, TRUE)}
    ELSE IF t.state = "ShuttingDown" THEN
        {Polled([t EXCEPT !.state = "Done"], dst, FALSE), Polled(t, dst, TRUE)}
    ELSE {}

pipe_done_either(a, b) == a.state = "Done" \/ b.state = "Done"

\* copy_bidirectional is ready with Ok when both transfers are Done.
pipe_done(a, b) == a.state = "Done" /\ b.state = "Done"

on_copy_err_swallow(k) == Return(k, "Ok")

\* proxy.rs:169-172: the error of copy_bidirectional is the result of pipe, and
\* of handle_connection (proxy.rs:222).
on_copy_err(k) == Return(k, "Io")

\* proxy.rs:164-168: the counts are logged and pipe returns Ok.
on_copy_ok(k) ==
    Return([k EXCEPT !.report = <<k.a_to_b.amt, k.b_to_a.amt>>], "Ok")

\* The connection after one poll of copy_bidirectional (proxy.rs:164).
pipe_after(k) ==
    IF pipe_done(k.a_to_b, k.b_to_a) THEN on_copy_ok(k) ELSE k

pipe_polls(k, cb, ub) ==
    {IF o.err THEN on_copy_err(k)
     ELSE pipe_after([k EXCEPT !.a_to_b = o.t, !.to_up = o.dst]) :
        o \in transfer_one_direction(k.a_to_b, cb, k.to_up)}
    \cup
    {IF o.err THEN on_copy_err(k)
     ELSE pipe_after([k EXCEPT !.b_to_a = o.t, !.to_down = o.dst]) :
        o \in transfer_one_direction(k.b_to_a, ub, k.to_down)}

tick_pipe_deadline(k) == Return(k, "Timeout")

\* proxy.rs:222: pipe is awaited bare; no timer runs during the relay, so a
\* time unit that passes changes nothing.
tick_pipe(k) == k

\* tokio::spawn (proxy.rs:85-91): every task owns its own state; a handler's
\* error is logged by its own task.
spawn_update_shared(c, k) ==
    [d \in Conns |->
        IF d = c THEN k
        ELSE IF k.result \notin {"none", "Ok"} /\ Running(d)
             THEN Return(conn[d], "Aborted") ELSE conn[d]]

spawn_update(c, k) == [conn EXCEPT ![c] = k]

\* The runtime polls tasks until main has returned.
RuntimeUp == mainPc # "exited"

ConnFrame == UNCHANGED <<mainPc, ca_file, upstream, incoming, server_cfg,
                         client_cfg, listener, runResult, exitResult, acceptErrors,
                         signal, tcp_delay, client_bytes, upstream_bytes>>

\* tls_accept (proxy.rs:111-120): the server-side handshake under the guard.
tls_accept(c) ==
    /\ RuntimeUp
    /\ conn[c].phase = "tls_accept"
    /\ \E inner \in accept_futures(server_cfg.roots) :
        LET r == with_timeout(inner, conn[c].guard, InboundDeadline)
        IN /\ r # "Pending"
           /\ conn' = spawn_update(c, handle_tls_accept([conn[c] EXCEPT !.polled = inner], r))
    /\ ConnFrame

\* connect_upstream, address lookup of TcpStream::connect (proxy.rs:137)
connect_upstream_lookup(c) ==
    /\ RuntimeUp
    /\ conn[c].phase = "connect_upstream"
    /\ \E dns_ok \in BOOLEAN :
        conn' = spawn_update(c, connect_lookup(conn[c], to_socket_addrs(upstream, dns_ok)))
    /\ ConnFrame

\* connect_upstream, end of the TCP connect (proxy.rs:137-146)
connect_upstream_tcp(c) ==
    /\ RuntimeUp
    /\ conn[c].phase = "tcp_connect"
    /\ \E tcp_ok \in BOOLEAN :
        conn' = spawn_update(c, connect_tcp(conn[c], tcp_ok, upstream))
    /\ ConnFrame

\* connect_upstream, the client-side handshake under the guard (proxy.rs:144-148)
connect_upstream_tls(c) ==
    /\ RuntimeUp
    /\ conn[c].phase = "tls_connect"
    /\ \E inner \in connect_futures(client_cfg.roots) :
        LET r == with_timeout(inner, conn[c].guard, OutboundDeadline)
        IN /\ r # "Pending"
           /\ conn' = spawn_update(c, handle_connect_upstream([conn[c] EXCEPT !.polled = inner], r))
    /\ ConnFrame

\* pipe (proxy.rs:159-175): one poll of copy_bidirectional makes one of the
\* steps of pipe_polls.
pipe(c) ==
    /\ RuntimeUp
    /\ conn[c].phase = "pipe"
    /\ \E k \in pipe_polls(conn[c], client_bytes, upstream_bytes) :
        conn' = spawn_update(c, k)
    /\ ConnFrame

\* One time unit passes for connection c. A running guard fires at its
\* deadline, so time does not pass it; the TCP connect has no guard and lasts
\* as long as the upstream takes (tcp_delay); the relay has no timer at all.
Tick(c) ==
    /\ RuntimeUp
    /\ LET k == conn[c]
       IN IF k.phase = "tls_accept" THEN
            /\ k.guard < InboundDeadline
            /\ conn' = [conn EXCEPT ![c].guard = k.guard + 1]
          ELSE IF k.phase = "tcp_connect" THEN
            /\ k.dial < tcp_delay
            /\ conn' = [conn EXCEPT ![c].dial = k.dial + 1]
          ELSE IF k.phase = "pipe" THEN
            conn' = spawn_update(c, tick_pipe(k))
          ELSE
            /\ k.phase = "tls_connect"
            /\ k.guard < OutboundDeadline
            /\ conn' = [conn EXCEPT ![c].guard = k.guard + 1, ![c].dial = k.dial + 1]
    /\ ConnFrame

\* ------------------------------------------------------- main (main.rs)
SupFrame == UNCHANGED <<ca_file, upstream, incoming, tcp_delay, client_bytes,
                        upstream_bytes>>

\* Dropping the runtime when main returns drops every task still running.
runtime_drop(cs) ==
    [c \in Conns |->
        IF cs[c].phase \in {"none", "closed"} THEN cs[c] ELSE Return(cs[c], "Aborted")]

\* main.rs:14: load_config()? ; the configuration is ca_file, upstream.
load_config ==
    /\ mainPc = "load_config"
    /\ \E ok \in BOOLEAN :
        IF ok THEN /\ mainPc' = "build_server_config"
                   /\ exitResult' = exitResult
        ELSE /\ mainPc' = "exited"
             /\ exitResult' = "Config"
    /\ UNCHANGED <<server_cfg, client_cfg, listener, runResult, acceptErrors, signal, conn>>
    /\ SupFrame

new_continue_on_error(r, next) == next

\* The `?` of Proxy::new (proxy.rs:187-188) and of main.rs:33: an error ends
\* main, and only a built context lets startup go on.
new_step(r, next) == IF r.ok THEN next ELSE "exited"

\* Proxy::new, first half (proxy.rs:187)
new_server_cfg ==
    /\ mainPc = "build_server_config"
    /\ \E r \in {build_server_config(cert, key, ca_file, single_cert_ok) :
                    cert \in CertFiles, key \in KeyFiles, single_cert_ok \in BOOLEAN} :
           /\ mainPc' = new_step(r, "build_client_config")
           /\ server_cfg' = IF r.ok THEN r.val ELSE server_cfg
           /\ exitResult' = IF new_step(r, "build_client_config") = "exited"
                            THEN r.err ELSE exitResult
    /\ UNCHANGED <<client_cfg, listener, runResult, acceptErrors, signal, conn>>
    /\ SupFrame

\* Proxy::new, second half (proxy.rs:188-194)
new_client_cfg ==
    /\ mainPc = "build_client_config"
    /\ \E r \in {build_client_config(cert, key, ca_file, single_cert_ok) :
                    cert \in CertFiles, key \in KeyFiles, single_cert_ok \in BOOLEAN} :
           /\ mainPc' = new_step(r, "run")
           /\ client_cfg' = IF r.ok THEN r.val ELSE client_cfg
           /\ exitResult' = IF new_step(r, "run") = "exited" THEN r.err ELSE exitResult
    /\ UNCHANGED <<server_cfg, listener, runResult, acceptErrors, signal, conn>>
    /\ SupFrame

\* ------------------------------------------- Proxy::run, accept_loop
run_result_swapped(event) == IF event = "ctrl_c" THEN "Err" ELSE "Ok"

\* The two arms of select! (proxy.rs:55-63): accept_loop returns only the bind
\* error, Ctrl-C gives Ok(()).
run_result(event) == IF event = "ctrl_c" THEN "Ok" ELSE "Err"

\* accept_loop, TcpListener::bind(..).await? (proxy.rs:74)
bind ==
    /\ mainPc = "run"
    /\ \E ok \in BOOLEAN :
        IF ok THEN /\ mainPc' = "listening"
                   /\ listener' = "bound"
                   /\ runResult' = runResult
        ELSE /\ mainPc' = "run_returned"
             /\ listener' = "failed"
             /\ runResult' = run_result("bind_err")
    /\ UNCHANGED <<server_cfg, client_cfg, exitResult, acceptErrors, signal, conn>>
    /\ SupFrame

after_spawn_await(pc) == "handling"

\* proxy.rs:87-91: tokio::spawn returns at once and its JoinHandle is dropped;
\* the loop goes straight back to accept().
after_spawn(pc) == pc

\* accept_loop, accept() gives a socket: one task is spawned (proxy.rs:78-91)
accept_ok ==
    /\ mainPc = "listening"
    /\ NextSlot <= incoming
    /\ conn' = [conn EXCEPT ![NextSlot] =
                   [NoConn EXCEPT !.phase = "tls_accept", !.down = "open"]]
    /\ mainPc' = after_spawn(mainPc)
    /\ UNCHANGED <<server_cfg, client_cfg, listener, runResult, exitResult,
                   acceptErrors, signal>>
    /\ SupFrame

on_accept_err_fatal(pc) == "run_returned"

\* proxy.rs:80-83: warn! and continue
on_accept_err(pc) == pc

\* accept_loop, accept() fails
accept_err ==
    /\ mainPc = "listening"
    /\ acceptErrors < MaxAcceptErrors
    /\ acceptErrors' = acceptErrors + 1
    /\ mainPc' = on_accept_err(mainPc)
    /\ runResult' = IF on_accept_err(mainPc) = "run_returned" THEN "Err" ELSE runResult
    /\ listener' = IF on_accept_err(mainPc) = "run_returned" THEN "closed" ELSE listener
    /\ UNCHANGED <<server_cfg, client_cfg, exitResult, signal, conn>>
    /\ SupFrame

on_ctrl_c_cancel(cs) == runtime_drop(cs)

\* proxy.rs:59-62: the Ctrl-C arm drops the accept_loop future (and with it the
\* listener) and touches no spawned task.
on_ctrl_c(cs) == cs

\* Proxy::run, the shutdown signal wins the select!
ctrl_c ==
    /\ mainPc \in {"run", "listening"}
    /\ mainPc' = "run_returned"
    /\ runResult' = run_result("ctrl_c")
    /\ listener' = IF listener = "bound" THEN "closed" ELSE listener
    /\ signal' = "received"
    /\ conn' = on_ctrl_c(conn)
    /\ UNCHANGED <<server_cfg, client_cfg, exitResult, acceptErrors>>
    /\ SupFrame

main_result_propagate(run) == run

\* main.rs:34-38: an error of run is only logged; main returns Ok(()).
main_result(run) == "Ok"

main_return ==
    /\ mainPc = "run_returned"
    /\ mainPc' = "exited"
    /\ exitResult' = main_result(runResult)
    /\ conn' = runtime_drop(conn)
    /\ UNCHANGED <<server_cfg, client_cfg, listener, runResult, acceptErrors, signal>>
    /\ SupFrame

\* ---------------------------------------------------------- specifications
GoodCa == File(<<"ca1">>)
GoodAddr == <<"h", ":", "1">>

InitState ==
    /\ mainPc = "load_config"
    /\ server_cfg = NoCfg
    /\ client_cfg = NoCfg
    /\ listener = "unbound"
    /\ runResult = "none"
    /\ exitResult = "none"
    /\ acceptErrors = 0
    /\ signal = "none"
    /\ conn = [c \in Conns |-> NoConn]

\* The proxy with a well-formed and a colon-less upstream address and an
\* upstream that accepts at once, serving MaxConns clients.
Init ==
    /\ InitState
    /\ ca_file = GoodCa
    /\ upstream \in {GoodAddr, <<"h">>}
    /\ incoming = MaxConns
    /\ tcp_delay = 0
    /\ client_bytes = <<>>
    /\ upstream_bytes = <<>>

\* Every CA file, one client.
InitStartup ==
    /\ InitState
    /\ ca_file \in CertFiles
    /\ upstream = GoodAddr
    /\ incoming = 1
    /\ tcp_delay = 0
    /\ client_bytes = <<>>
    /\ upstream_bytes = <<>>

\* Every upstream address, an upstream slow to accept, one client.
InitDial ==
    /\ InitState
    /\ ca_file = GoodCa
    /\ upstream \in Addresses
    /\ incoming = 1
    /\ tcp_delay = MaxConnectWait
    /\ client_bytes = <<>>
    /\ upstream_bytes = <<>>

\* Every pair of payloads, one client.
InitRelay ==
    /\ InitState
    /\ ca_file = GoodCa
    /\ upstream = GoodAddr
    /\ incoming = 1
    /\ tcp_delay = 0
    /\ client_bytes \in ClientPayloads
    /\ upstream_bytes \in UpstreamPayloads

Next ==
    \/ load_config
    \/ new_server_cfg
    \/ new_client_cfg
    \/ bind
    \/ accept_ok
    \/ accept_err
    \/ ctrl_c
    \/ main_return
    \/ \E c \in Conns : tls_accept(c)
    \/ \E c \in Conns : connect_upstream_lookup(c)
    \/ \E c \in Conns : connect_upstream_tcp(c)
    \/ \E c \in Conns : connect_upstream_tls(c)
    \/ \E c \in Conns : pipe(c)
    \/ \E c \in Conns : Tick(c)

Spec == Init /\ [][Next]_vars
SpecStartup == InitStartup /\ [][Next]_vars
SpecDial == InitDial /\ [][Next]_vars
SpecRelay == InitRelay /\ [][Next]_vars

\* ------------------------------------------------------------------ claims
InDial(k) == k.phase \in {"connect_upstream", "tcp_connect", "tls_connect"}
\* the outbound dial was started: the connection is in it, or left a trace of it
DialStarted(k) == InDial(k) \/ k.phase = "pipe" \/ k.up # "none" \/ k.outbound # "none"
\* the operation of phase p returns to connection c's handler in this step
\* (the task is not dropped by the runtime)
Returns(c, p) ==
    conn[c].phase = p /\ conn'[c].phase # p /\ conn'[c].result # "Aborted"

\* C1: within a connection the outbound dial (its TCP connect included) is
\* started only after the inbound handshake succeeded, the relay only after the
\* outbound handshake succeeded; a connection whose inbound handshake failed is
\* closed and never dials the upstream.
C1_PhaseOrder ==
    \A c \in Conns :
        LET k == conn[c]
        IN /\ DialStarted(k) => k.inbound = "Ok"
           /\ k.phase = "pipe" => k.inbound = "Ok" /\ k.outbound = "Ok"
           /\ k.inbound \notin {"none", "Ok"} =>
                 k.phase = "closed" /\ k.up = "none" /\ k.outbound = "none"

\* one connection dropped on a failed inbound handshake without a dial, while
\* another relays after both of its handshakes
C1_Witness ==
    \E c, d \in Conns :
        /\ conn[c].inbound \in {"CertInvalid", "Timeout"}
        /\ conn[c].phase = "closed" /\ conn[c].up = "none"
        /\ conn[d].phase = "pipe" /\ conn[d].up = "open"

\* C2: a guarded handshake that is ready when polled gives its own result
\* unchanged; one still pending gives Timeout, only at its deadline (5 inbound,
\* 10 outbound) and as a result no handshake of its own produces; no handshake
\* stays pending past its deadline.
C2_TimeoutGuard ==
    /\ [](\A c \in Conns :
            /\ conn[c].phase = "tls_accept" => conn[c].guard <= InboundDeadline
            /\ conn[c].phase = "tls_connect" => conn[c].guard <= OutboundDeadline)
    /\ [][\A c \in Conns :
            /\ Returns(c, "tls_accept") =>
                 IF conn'[c].polled # "Pending"
                 THEN conn'[c].inbound = conn'[c].polled /\ conn'[c].inbound # "Timeout"
                 ELSE conn'[c].inbound = "Timeout" /\ conn[c].guard = InboundDeadline
            /\ Returns(c, "tls_connect") =>
                 IF conn'[c].polled # "Pending"
                 THEN conn'[c].outbound = conn'[c].polled /\ conn'[c].outbound # "Timeout"
                 ELSE conn'[c].outbound = "Timeout" /\ conn[c].guard = OutboundDeadline
       ]_vars

\* one connection timed out in the inbound handshake, another in the outbound
C2_Witness ==
    \E c, d \in Conns :
        /\ conn[c].inbound = "Timeout" /\ conn[c].polled = "Pending"
        /\ conn[d].inbound = "Ok" /\ conn[d].outbound = "Timeout"

\* C3: a connection in the outbound dial (TCP connect, then TLS handshake) has
\* been in it for at most 10 time units.
C3_DialDeadline ==
    \A c \in Conns : InDial(conn[c]) => conn[c].dial <= OutboundDeadline

\* The form host:port of an upstream address: one ':' between a non-empty
\* host and a port number.
IsHostPort(s) ==
    /\ Cardinality(Colons(s)) = 1
    /\ FirstColon(s) > 1
    /\ parse_port(SubSeq(s, FirstColon(s) + 1, Len(s)))

\* the outbound TLS handshake of k was started
TlsOutStarted(k) ==
    k.phase \in {"tls_connect", "pipe"} \/ k.outbound \in {"Ok", "CertInvalid", "Timeout"}

\* C4: with an upstream address that is not of the form host:port no
\* connection ever attempts a TCP connection to the upstream or starts the
\* outbound TLS handshake, and a dial that was entered has failed.
C4_MalformedFailsBeforeTcp ==
    ~IsHostPort(upstream) =>
        \A c \in Conns :
            /\ conn[c].up = "none"
            /\ ~TlsOutStarted(conn[c])
            /\ conn[c].phase \notin {"tcp_connect", "tls_connect", "pipe"}

\* (C4, the case the code does meet) with an upstream address holding no ':'
\* the dial fails in the address lookup of TcpStream::connect, before any TCP
\* connection attempt.
C4_NoColonFailsBeforeTcp ==
    Colons(upstream) = {} =>
        \A c \in Conns :
            /\ conn[c].up = "none"
            /\ ~TlsOutStarted(conn[c])
            /\ conn[c].outbound \in {"none", "InvalidInput"}

\* the handler of connection a ends with an error in this step
Fails(a) ==
    /\ conn[a].phase \notin {"none", "closed"}
    /\ conn'[a].phase = "closed"
    /\ conn'[a].result \notin {"Ok", "Aborted"}

\* C5: the step in which one connection's handler ends with an error changes
\* no other connection and nothing of the supervisor: the accept loop, the
\* listener and the process stay as they were.
C5_FailureIsolated ==
    [][\A a \in Conns :
          Fails(a) =>
             /\ \A b \in Conns \ {a} : conn'[b] = conn[b]
             /\ UNCHANGED <<mainPc, listener, runResult, exitResult, signal,
                            acceptErrors, server_cfg, client_cfg, incoming>>
      ]_vars

\* the first connection failed in its inbound handshake; the second, accepted
\* by the still running loop, went through to a successful relay
C5_Witness ==
    /\ mainPc = "listening"
    /\ conn[1].phase = "closed" /\ conn[1].result \in {"CertInvalid", "Timeout", "Io"}
    /\ conn[2].phase = "closed" /\ conn[2].result = "Ok"

\* C6: a failed accept leaves the accept loop running on the same bound
\* listener with no run result and no connection touched; after any number of
\* accept failures the loop has stopped only if the shutdown signal came.
C6_AcceptErrorNotFatal ==
    /\ []((acceptErrors > 0 /\ signal = "none") =>
             mainPc = "listening" /\ listener = "bound" /\ runResult = "none")
    /\ [][acceptErrors' > acceptErrors =>
             /\ mainPc' = "listening" /\ listener' = "bound"
             /\ runResult' = "none" /\ exitResult' = "none"
             /\ conn' = conn
         ]_vars

\* every accept failure of the run has happened and the loop can still accept
\* its first connection
C6_Witness ==
    /\ acceptErrors = MaxAcceptErrors
    /\ ~Accepted(1)
    /\ ENABLED accept_ok

\* C7: run returns Ok exactly when the shutdown signal was received, and Err
\* exactly when the bind failed; a bound listener is closed only by the signal;
\* the two never coincide.
C7_TwoTerminationPaths ==
    /\ runResult \in {"none", "Ok", "Err"}
    /\ runResult = "Ok" <=> signal = "received"
    /\ runResult = "Err" <=> listener = "failed"
    /\ listener = "closed" => signal = "received"
    /\ mainPc = "run_returned" => runResult # "none"
    /\ mainPc = "listening" => runResult = "none" /\ listener = "bound"

\* the run ended by the signal after a connection was served
C7_Witness ==
    /\ runResult = "Ok" /\ listener = "closed"
    /\ \E c \in Conns : conn[c].result = "Ok"

\* the run ended by a bind failure
C7_WitnessBind == runResult = "Err" /\ listener = "failed" /\ signal = "none"

\* C8: the step of the shutdown signal changes no connection; once run has
\* returned no further connection is accepted; a handler that is running then
\* can still take its next step until main returns.
C8_ShutdownStopsAcceptOnly ==
    /\ [][signal = "none" /\ signal' = "received" => conn' = conn]_vars
    /\ [][(mainPc \in {"run_returned", "exited"}) =>
             (\A c \in Conns : ~Accepted(c) => conn'[c] = conn[c])]_vars
    /\ [](mainPc = "run_returned" =>
             \A c \in Conns :
                /\ conn[c].phase = "tls_accept" => ENABLED tls_accept(c)
                /\ conn[c].phase = "pipe" => ENABLED pipe(c))

\* after the signal one connection is still in its handshake, one in its relay
C8_Witness ==
    /\ signal = "received" /\ mainPc = "run_returned"
    /\ \E c, d \in Conns : conn[c].phase = "tls_accept" /\ conn[d].phase = "pipe"

\* C9: the listener is bound (or a bind is tried), and a connection accepted,
\* only with both TLS contexts built; a startup error ends main with the
\* listener never touched and no connection accepted.
C9_StartupBeforeNetwork ==
    /\ (mainPc \in {"run", "listening", "run_returned"} \/ listener # "unbound"
           \/ \E c \in Conns : Accepted(c))
          => server_cfg.built /\ client_cfg.built
    /\ exitResult \notin {"none", "Ok"} =>
          /\ mainPc = "exited" /\ listener = "unbound" /\ runResult = "none"
          /\ \A c \in Conns : ~Accepted(c)
          /\ ~(server_cfg.built /\ client_cfg.built)

\* main ended on a CA file without a valid certificate, nothing bound
C9_Witness ==
    /\ exitResult = "EmptyTrustStore" /\ mainPc = "exited" /\ listener = "unbound"

\* the certificates of a PEM file that are usable as trust anchors, in order
RECURSIVE Anchors(_)
Anchors(items) ==
    IF items = <<>> THEN <<>>
    ELSE LET rest == Anchors(Tail(items))
         IN IF Head(items) \in {"ca1", "ca2"} THEN <<Head(items)>> \o rest ELSE rest

\* C10: a TLS context that exists has a non-empty trust store, the trust
\* anchors of the configured CA file; with a readable CA file holding no
\* trust anchor neither context is ever built and main never gets to run.
C10_TrustStoreNonEmpty ==
    /\ \A cfg \in {server_cfg, client_cfg} :
          cfg.built => /\ cfg.roots # <<>>
                       /\ ca_file.exists
                       /\ cfg.roots = Anchors(ca_file.items)
    /\ (server_cfg.built /\ client_cfg.built) => server_cfg.roots = client_cfg.roots
    /\ (ca_file.exists /\ Anchors(ca_file.items) = <<>>) =>
          /\ ~server_cfg.built /\ ~client_cfg.built
          /\ mainPc \in {"load_config", "build_server_config", "exited"}
          /\ exitResult \in {"none", "Config", "Io", "Pem", "MissingKey", "EmptyTrustStore"}

\* both contexts built from a CA file one section of which is no certificate
C10_Witness ==
    /\ server_cfg.built /\ client_cfg.built
    /\ Len(server_cfg.roots) = 1 /\ Len(ca_file.items) = 2

\* the server context refused for the empty trust store
C10_WitnessEmpty ==
    /\ exitResult = "EmptyTrustStore" /\ ~server_cfg.built
    /\ ca_file.exists /\ Len(ca_file.items) > 0

IsPrefix(s, t) == Len(s) <= Len(t) /\ SubSeq(t, 1, Len(s)) = s

\* C11: relay transparency. What the upstream has received is a prefix of what
\* the client wrote and what the client has received is a prefix of what the
\* upstream wrote (the two write over disjoint alphabets, so no byte crosses
\* directions); inside a running relay, the delivered bytes followed by the
\* buffered ones are exactly the bytes read so far, in order.
C11_RelayTransparent ==
    \A c \in Conns :
        LET k == conn[c]
        IN /\ IsPrefix(k.to_up, client_bytes)
           /\ IsPrefix(k.to_down, upstream_bytes)
           /\ k.phase = "pipe" =>
                /\ k.to_up \o k.a_to_b.buf = SubSeq(client_bytes, 1, k.a_to_b.pos)
                /\ k.to_down \o k.b_to_a.buf = SubSeq(upstream_bytes, 1, k.b_to_a.pos)

\* a relay that has delivered two different bytes upstream, in the client's
\* order, and a byte of the upstream to the client
C11_Witness ==
    \E c \in Conns :
        /\ Len(conn[c].to_up) >= 2 /\ conn[c].to_up[1] # conn[c].to_up[2]
        /\ conn[c].to_up = client_bytes
        /\ Len(conn[c].to_down) >= 1

\* C12: the counts of a relay that ended with success, <<from_client,
\* from_server>>, are the numbers of bytes the upstream and the client have
\* received; while a relay runs, each transfer's count is the number of bytes
\* it has delivered.
C12_CountersMatch ==
    \A c \in Conns :
        LET k == conn[c]
        IN /\ k.result = "Ok" => k.report = <<Len(k.to_up), Len(k.to_down)>>
           /\ k.phase = "pipe" => /\ k.a_to_b.amt = Len(k.to_up)
                                  /\ k.b_to_a.amt = Len(k.to_down)

\* a successful relay that carried two bytes one way and one byte the other
C12_Witness ==
    \E c \in Conns :
        /\ conn[c].result = "Ok"
        /\ conn[c].report = <<2, 1>>
        /\ Len(conn[c].to_up) = 2 /\ Len(conn[c].to_down) = 1

C13_WitnessHalfClosed ==
    \E c \in Conns :
        /\ conn[c].phase = "pipe" /\ conn[c].result = "none"
        /\ conn[c].a_to_b.state = "Done" /\ conn[c].b_to_a.state = "Running"
        /\ Len(conn[c].to_down) >= 1 /\ conn[c].to_down # upstream_bytes

\* C14: a relay ends either with Ok and its counts, or with the I/O error as
\* the connection's result; the failing step delivers nothing more, rolls
\* nothing back, logs no counts and closes both sockets; a closed connection
\* never changes again, so nothing is relayed after the error. (A relay cut
\* short by the process exiting is neither.)
C14_RelayErrorFailsConnection ==
    [][\A c \in Conns :
        /\ (conn[c].phase = "pipe" /\ conn'[c].phase = "closed"
            /\ conn'[c].result # "Aborted") =>
              \/ /\ conn'[c].result = "Ok"
                 /\ conn'[c].report = <<Len(conn'[c].to_up), Len(conn'[c].to_down)>>
              \/ /\ conn'[c].result = "Io"
                 /\ conn'[c].report = <<>>
                 /\ conn'[c].to_up = conn[c].to_up
                 /\ conn'[c].to_down = conn[c].to_down
                 /\ conn'[c].down = "closed" /\ conn'[c].up = "closed"
        /\ conn[c].phase = "closed" => conn'[c] = conn[c]
      ]_vars

\* a relay that failed after part of the client's bytes had reached the
\* upstream
C14_Witness ==
    \E c \in Conns :
        /\ conn[c].phase = "closed" /\ conn[c].result = "Io"
        /\ conn[c].outbound = "Ok"
        /\ Len(conn[c].to_up) = 1 /\ Len(client_bytes) = 2
        /\ conn[c].down = "closed" /\ conn[c].up = "closed"

\* C15: a step that accepts a socket starts exactly one handler, in the next
\* free slot, at its inbound handshake, changes no other connection and leaves
\* the loop accepting; whatever the handlers are doing, the loop can accept as
\* long as a client is waiting; a handler is started once only; unless the
\* process exits, a step changes at most one connection, and a step of a
\* handler changes nothing of the supervisor.
C15_OneTaskPerSocketNoBlocking ==
    /\ []((mainPc = "listening" /\ NextSlot <= incoming) => ENABLED accept_ok)
    /\ [][(\A c \in Conns :
               (~Accepted(c) /\ conn'[c].phase # "none") =>
                  /\ c = NextSlot
                  /\ conn'[c] = [NoConn EXCEPT !.phase = "tls_accept", !.down = "open"]
                  /\ \A d \in Conns \ {c} : conn'[d] = conn[d]
                  /\ mainPc = "listening" /\ mainPc' = "listening")
           /\ (\A c \in Conns :
               (conn'[c].phase = "tls_accept" /\ conn[c].phase # "tls_accept") =>
                  ~Accepted(c))
           /\ (mainPc' # "exited" =>
                  Cardinality({c \in Conns : conn'[c] # conn[c]}) <= 1)
           /\ ((\E c \in Conns : Accepted(c) /\ conn'[c] # conn[c] /\ mainPc' # "exited") =>
                  UNCHANGED <<mainPc, listener, runResult, exitResult, signal,
                              acceptErrors, server_cfg, client_cfg>>)
         ]_vars

\* the first connection sits in its relay, which has no deadline, while the
\* second, accepted after it, has been served to the end
C15_Witness ==
    /\ mainPc = "listening"
    /\ conn[1].phase = "pipe" /\ conn[1].a_to_b.state = "Running"
    /\ conn[2].phase = "closed" /\ conn[2].result = "Ok"

\* The place of a phase in the pipeline of handle_connection.
PhaseRank(p) ==
    CASE p = "none" -> 0
      [] p = "tls_accept" -> 1
      [] p = "connect_upstream" -> 2
      [] p = "tcp_connect" -> 3
      [] p = "tls_connect" -> 4
      [] p = "pipe" -> 5
      [] p = "closed" -> 6

\* C16: no retry. A connection only moves forward through its phases, so no
\* phase is entered twice; once a phase has recorded its result the result
\* never changes; a phase that fails takes the connection to closed in that
\* very step, and closed is final.
C16_NoRetry ==
    [][\A c \in Conns :
        LET k == conn[c]
            n == conn'[c]
        IN /\ PhaseRank(n.phase) >= PhaseRank(k.phase)
           /\ k.inbound # "none" => n.inbound = k.inbound
           /\ k.outbound # "none" => n.outbound = k.outbound
           /\ k.result # "none" => n = k
           /\ (n.inbound \notin {"none", "Ok"} /\ k.inbound = "none") =>
                 (n.phase = "closed" /\ n.result = n.inbound /\ n.up = "none")
           /\ (n.outbound \notin {"none", "Ok"} /\ k.outbound = "none") =>
                 (n.phase = "closed" /\ n.result = n.outbound)
           /\ (k.phase = "pipe" /\ n.phase # "pipe") => n.phase = "closed"
      ]_vars

\* one connection closed by a failed dial after a successful inbound
\* handshake, another closed by a failed inbound handshake
C16_Witness ==
    /\ conn[1].phase = "closed" /\ conn[1].inbound = "Ok"
    /\ conn[1].outbound \in {"Io", "CertInvalid", "Timeout"}
    /\ conn[2].phase = "closed" /\ conn[2].inbound \in {"CertInvalid", "Timeout"}

\* C17: a connection whose handler has ended holds no open socket: its
\* inbound socket is closed and its upstream socket is closed or was never
\* established; while the handler runs the inbound socket is open.
C17_NoSocketLeak ==
    \A c \in Conns :
        LET k == conn[c]
        IN /\ k.phase = "closed" =>
                /\ k.result # "none"
                /\ k.down = "closed"
                /\ k.up \in {"none", "failed", "closed"}
                /\ (k.outbound \in {"Ok", "CertInvalid", "Timeout", "InvalidServerName"} =>
                      k.up = "closed")
           /\ k.result # "none" => k.phase = "closed"
           /\ Running(c) => k.down = "open"

\* a dial that timed out in its handshake: the authenticated inbound stream
\* and the upstream socket of the abandoned handshake are closed; and an
\* inbound handshake that timed out
C17_Witness ==
    /\ conn[1].phase = "closed" /\ conn[1].inbound = "Ok"
    /\ conn[1].outbound = "Timeout"
    /\ conn[1].down = "closed" /\ conn[1].up = "closed"
    /\ conn[2].phase = "closed" /\ conn[2].inbound = "Timeout"
    /\ conn[2].down = "closed"

\* C18: a connection leaves the relay only closed, with the relay's own
\* result (Ok after end-of-stream both ways, or the I/O error) or because the
\* process exits; a Timeout result comes from one of the two handshakes only.
C18_RelayHasNoDeadline ==
    /\ [](\A c \in Conns :
             conn[c].result = "Timeout" =>
                /\ (conn[c].inbound = "Timeout" \/ conn[c].outbound = "Timeout")
                /\ conn[c].to_up = <<>> /\ conn[c].to_down = <<>>)
    /\ [][\A c \in Conns :
            (conn[c].phase = "pipe" /\ conn'[c] # conn[c]) =>
               \/ conn'[c].phase = "pipe"
               \/ /\ conn'[c].phase = "closed"
                  /\ conn'[c].result \in {"Ok", "Io"}
               \/ /\ conn'[c].phase = "closed"
                  /\ conn'[c].result = "Aborted" /\ mainPc' = "exited"
         ]_vars

\* time can pass for a connection in its relay, and it is still relaying,
\* while another connection has been ended by the deadline of its handshake
C18_Witness ==
    /\ conn[1].phase = "pipe" /\ conn[1].result = "none"
    /\ ENABLED Tick(1)
    /\ conn[2].phase = "closed" /\ conn[2].result = "Timeout"

\* The text of an upstream address before its first ':'.
HostPart(s) == IF Colons(s) = {} THEN s ELSE SubSeq(s, 1, FirstColon(s) - 1)

\* C19: the dial fails with the invalid-server-name error only in the step
\* that ends the TCP connect, with the connection established and closed again
\* in that step and no TLS handshake ever started; it does so exactly for the
\* addresses whose text before the first ':' is no server name; the
\* invalid-upstream-address error is never produced.
C19_TcpBeforeHostCheck ==
    /\ [](\A c \in Conns :
            LET k == conn[c]
            IN /\ k.outbound # "InvalidUpstream" /\ k.result # "InvalidUpstream"
               /\ k.outbound = "InvalidServerName" =>
                    /\ k.phase = "closed" /\ k.up = "closed"
                    /\ ~server_name(HostPart(upstream)).ok
               /\ k.phase \in {"tls_connect", "pipe"} =>
                    server_name(HostPart(upstream)).ok)
    /\ [][\A c \in Conns :
            (conn'[c].outbound = "InvalidServerName" /\ conn[c].outbound = "none") =>
               /\ conn[c].phase = "tcp_connect"
               /\ conn[c].up = "connecting"
               /\ conn'[c].up = "closed"
         ]_vars

\* an address with several ':' whose host part is empty: the TCP connection
\* was made and closed, the dial failed on the server name
C19_Witness ==
    \E c \in Conns :
        /\ conn[c].outbound = "InvalidServerName"
        /\ conn[c].up = "closed"
        /\ Cardinality(Colons(upstream)) >= 2

\* C20: main returns Ok whenever it got as far as running the proxy, whether
\* run ended by the signal or by a bind failure; main returns an error only
\* for a failure of the configuration or of the trust material, before
\* anything was bound.
C20_MainSwallowsRunError ==
    /\ (mainPc = "exited" /\ runResult # "none") => exitResult = "Ok"
    /\ (mainPc = "exited" /\ server_cfg.built /\ client_cfg.built) => exitResult = "Ok"
    /\ exitResult = "Ok" =>
          /\ mainPc = "exited" /\ runResult \in {"Ok", "Err"}
          /\ server_cfg.built /\ client_cfg.built
    /\ exitResult \notin {"none", "Ok"} =>
          /\ mainPc = "exited"
          /\ exitResult \in {"Config", "Io", "Pem", "MissingKey", "EmptyTrustStore",
                              "Rustls"}
          /\ ~(server_cfg.built /\ client_cfg.built)
          /\ runResult = "none" /\ listener = "unbound"

\* the listener could not be bound, run returned the error, main returned Ok
C20_Witness ==
    /\ mainPc = "exited" /\ listener = "failed"
    /\ runResult = "Err" /\ exitResult = "Ok"

\* main returned the error of the trust material
C20_WitnessStartupError ==
    /\ mainPc = "exited" /\ exitResult \in {"Pem", "MissingKey", "EmptyTrustStore"}

====
